---- MODULE Spec2Model ----
(***************************************************************************)
(* DeProductify: the scoring and decision engine of                        *)
(* DeProductifyOrchestrator (src/main.py).                                 *)
(*                                                                         *)
(* Scores are Python floats in the source.  Here they are fixed-point      *)
(* integers: a sub-score s is the integer s * One, and a raw, baseline or  *)
(* combined score x is the integer x * Full with Full = 10 * One, so that  *)
(* the weighted sum with the weights 0.4, 0.4, 0.2 is exact.               *)
(* Time is in whole seconds of time.time().                                *)
(*                                                                         *)
(* Spec      : the monitoring loop, one atomic step per loop iteration,    *)
(*             with the sub-scores the three producers can return and the  *)
(*             exceptions they can raise.                                  *)
(* SpecFaults: the same loop in surroundings where the notification or the *)
(*             overlay fails, or where triggers are meant to be vetoed.    *)
(* SpecScore : get_combined_productivity_score applied to sequences of     *)
(*             arbitrary sub-scores in [0,1], no trigger handling.         *)
(* SpecConfig: the loop of an orchestrator constructed with an arbitrary   *)
(*             productivity_threshold argument.                            *)
(* SpecLive  : Spec with the loop thread scheduled fairly.                 *)
(* SpecGui   : the GUI thread and the loop threads it starts, a loop       *)
(*             iteration in three steps.                                   *)
(* SpecDetect: ProductivityDetector.analyze_screen applied to screens.     *)
(* SpecTracker: a WindowTracker observing sequences of windows.            *)
(* SpecCollect: get_combined_productivity_score, its three collection      *)
(*             steps computed as the modules compute them.                 *)
(* SpecFresh : two orchestrators side by side, through a trigger and a     *)
(*             restart.                                                    *)
(* SpecWarn  : one run of the loop with the tick scheduled fairly and a    *)
(*             clock that does not end.                                    *)
(* SpecClassifier: the loop fed by the classifier alone, with the default  *)
(*             threshold and with the one of main().                       *)
(* SpecOverlay: PerformativeProtocol under the events of its event loop.   *)
(***************************************************************************)
EXTENDS Integers, Sequences, FiniteSets, TLC

\* ---------------------------------------------------------------- units
One == 10^6
Full == 10 * One

Min(a, b) == IF a < b THEN a ELSE b
Max(a, b) == IF a > b THEN a ELSE b

\* ------------------------------------------------------- configuration
\* DeProductifyOrchestrator.__init__ arguments and fields
DefaultThreshold == Full \div 2
CheckInterval == 2
WarningCooldown == 5

\* ---------------------------------------------------------- model bounds
\* the cooldown_seconds the orchestrator is constructed with (the default
\* is 120); a short one keeps several cooldown periods within MaxElapsed
CooldownSeconds == 3
MaxElapsed == 7
MaxLag == 1
MaxTrace == 3

\* time.time() when the orchestrator is constructed: long after the epoch,
\* so that now - 0 exceeds both cooldowns
BootTime == WarningCooldown + CooldownSeconds + 1
MaxTime == BootTime + MaxElapsed

VARIABLES
    monitoring,          \* self.monitoring
    loop,                \* "none" | "running" | "overlay": where the thread of
                         \* start_monitoring_with_gui is, if there is one
    is_in_cooldown,      \* self.is_in_cooldown
    last_trigger_time,   \* self.last_trigger_time
    baseline_score,      \* self.baseline_score
    last_warning_level,  \* self.last_warning_level
    last_warning_time,   \* self.last_warning_time
    kb_monitoring,       \* self.keyboard_tracker.monitoring
    now,                 \* time.time()
    tick,                \* what the last loop iteration did (observation record)
    fired_at,            \* times at which triggers fired, oldest first (observation)
    trace,               \* SpecScore: the calls of get_combined_productivity_score so far
    overlay_active,      \* the overlay of launch_performative_protocol is on screen
    productivity_threshold, \* self.productivity_threshold
    is_running,          \* DeProductifyGUI.is_running
    threads,             \* SpecGui: the threads started by the GUI, each with
                         \* its position in start_monitoring_with_gui
    status_queue,        \* DeProductifyGUI.status_queue, its "stopped" messages
    tracker,             \* SpecTracker: the fields of a WindowTracker
    runs,                \* SpecFresh: the trackers of two orchestrators that
                         \* are run side by side
    keyboard_tracker,    \* self.keyboard_tracker: "none" (None), "idle" (an
                         \* object whose listener never started) or
                         \* "listening"
    obs                  \* what the last call of a component returned
                         \* (observation record); SpecOverlay: the
                         \* PerformativeProtocol object; SpecClassifier:
                         \* which signals the run gets

\* the engine, and the components around it
engine == <<monitoring, loop, is_in_cooldown, last_trigger_time,
            baseline_score, last_warning_level, last_warning_time,
            kb_monitoring, now, tick, fired_at, trace, overlay_active,
            productivity_threshold>>
parts == <<is_running, threads, status_queue, tracker, runs, keyboard_tracker, obs>>

vars == <<monitoring, loop, is_in_cooldown, last_trigger_time, baseline_score,
          last_warning_level, last_warning_time, kb_monitoring, now, tick,
          fired_at, trace, overlay_active, productivity_threshold,
          is_running, threads, status_queue, tracker, runs, keyboard_tracker, obs>>

\* self.productivity_threshold, as should_trigger_protocol reads it
ProductivityThreshold == productivity_threshold

\* ------------------------------------------------ sub-scores of a tick
\* ProductivityDetector.compute_visual_score adds 0.3, 0.2, 0.2, 0.15, 0.15
\* per heuristic and analyze_screen adds the classifier boosts 0.2 / 0.4.
DetectionScores == {0, 35 * (One \div 100), One}
\* tracking_score is 0.8 when WindowTracker.should_trigger_protocol says so,
\* and stays 0.0 otherwise
TrackingScore(tracker_trigger) == IF tracker_trigger THEN 8 * (One \div 10) ELSE 0
\* KeyboardTracker.get_activity_score adds 0.4, 0.3, 0.2, 0.1
KeyboardScores == {0, 5 * (One \div 10), One}

\* what the three collection steps of a tick run into
\*   detection : analyze_screen raises, or returns productivity_score
\*   tracking  : track_window_focus / should_trigger_protocol raises, or
\*               should_trigger_protocol returns its verdict
\*   keyboard  : "before" = get_typing_statistics or get_activity_score
\*               raises; "after" = detect_productive_typing raises (it runs
\*               only for a score > 0); "no" = nothing raises
Returns(sc) == [raises |-> FALSE, score |-> sc]
Verdict(tr) == [raises |-> FALSE, trigger |-> tr]
Typing(sc) == [raises |-> "no", score |-> sc]
DetectionRaises == [raises |-> TRUE, score |-> 0]
TrackingRaises == [raises |-> TRUE, trigger |-> FALSE]
KeyboardRaisesBefore == [raises |-> "before", score |-> 0]
KeyboardRaisesAfter(sc) == [raises |-> "after", score |-> sc]

\* the ticks in which no producer raises
NominalInputs ==
    {<<Returns(d), Verdict(tr), Typing(k)>> :
        d \in DetectionScores, tr \in BOOLEAN, k \in KeyboardScores}

\* ticks in which one producer raises, or all of them do; the keyboard step
\* raises before or after it has stored a score of 0.5
FailureInputs ==
    { <<DetectionRaises, Verdict(TRUE), Typing(5 * (One \div 10))>>,
      <<Returns(35 * (One \div 100)), TrackingRaises, Typing(5 * (One \div 10))>>,
      <<Returns(35 * (One \div 100)), Verdict(TRUE), KeyboardRaisesBefore>>,
      <<Returns(35 * (One \div 100)), Verdict(TRUE),
        KeyboardRaisesAfter(5 * (One \div 10))>>,
      <<DetectionRaises, TrackingRaises, KeyboardRaisesBefore>> }

TickInputs == NominalInputs \cup FailureInputs

\* the ticks with a productive application in focus and no producer raising
FocusedInputs ==
    {<<Returns(d), Verdict(TRUE), Typing(k)>> :
        d \in DetectionScores, k \in {0, One}}

\* one try block around all three steps: the first exception ends collection
CollectSignalsAbort(det, trk, kb) ==
    [detection_score |-> IF det.raises THEN 0 ELSE det.score,
     tracking_score  |-> IF det.raises \/ trk.raises THEN 0
                         ELSE TrackingScore(trk.trigger),
     keyboard_score  |-> IF det.raises \/ trk.raises \/ kb.raises = "before"
                         THEN 0 ELSE kb.score,
     propagated      |-> FALSE]

\* the three try/except blocks of get_combined_productivity_score: the
\* sub-scores left in `results`, and whether an exception leaves the method
CollectSignals(det, trk, kb) ==
    [detection_score |-> IF det.raises THEN 0 ELSE det.score,
     tracking_score  |-> IF trk.raises THEN 0 ELSE TrackingScore(trk.trigger),
     keyboard_score  |-> IF kb.raises = "before" THEN 0 ELSE kb.score,
     propagated      |-> FALSE]

\* --------------------------------- get_combined_productivity_score
\* the weights of tracking and keyboard exchanged
RawScoreSwapped(detection, tracking, keyboard) ==
    detection * 4 + tracking * 2 + keyboard * 4

RawScore(detection, tracking, keyboard) ==
    detection * 4 + tracking * 4 + keyboard * 2

\* round(raw_score * 10) / 10.0 in place of int()
CurrentThresholdRounded(raw) ==
    ((raw * 10 + Full \div 2) \div Full) * (Full \div 10)

\* int(raw_score * 10) / 10.0
CurrentThreshold(raw) == ((raw * 10) \div Full) * (Full \div 10)

\* the baseline assigned without the comparison
UpdateBaselineFollow(baseline, raw) == CurrentThreshold(raw)

UpdateBaseline(baseline, raw) ==
    IF CurrentThreshold(raw) > baseline THEN CurrentThreshold(raw) ELSE baseline

\* min() in place of max()
CombinedScoreMin(baseline, raw) == Min(Min(baseline, raw), Full)

\* the raw score alone, the baseline left out of the comparison
CombinedScoreRawOnly(baseline, raw) == Min(raw, Full)

\* min(max(self.baseline_score, raw_score), 1.0)
CombinedScore(baseline, raw) == Min(Max(baseline, raw), Full)

\* the returned dictionary, with the baseline after the update
GetCombinedProductivityScore(baseline, detection, tracking, keyboard) ==
    LET raw == RawScore(detection, tracking, keyboard)
        b   == UpdateBaseline(baseline, raw)
    IN  [detection_score |-> detection,
         tracking_score  |-> tracking,
         keyboard_score  |-> keyboard,
         raw_score       |-> raw,
         baseline_score  |-> b,
         combined_score  |-> CombinedScore(b, raw)]

\* ------------------------------------------- should_trigger_protocol
\* variants of ShouldTriggerProtocol with one slip each
\*   Leaking : the blocked branch returns the combined score
ShouldTriggerProtocolLeaking(in_cooldown, ltt, current_time, data) ==
    LET time_remaining == CooldownSeconds - (current_time - ltt)
    IN  IF in_cooldown /\ time_remaining > 0
        THEN [should_trigger |-> FALSE, reason |-> "Cooldown active",
              score |-> data.combined_score, in_cooldown |-> TRUE]
        ELSE IF data.combined_score >= ProductivityThreshold
        THEN [should_trigger |-> TRUE, reason |-> "Productivity detected",
              score |-> data.combined_score, in_cooldown |-> FALSE]
        ELSE [should_trigger |-> FALSE, reason |-> "reason",
              score |-> data.combined_score, in_cooldown |-> FALSE]

\*   Late : time_remaining >= 0 blocks
ShouldTriggerProtocolLate(in_cooldown, ltt, current_time, data) ==
    LET time_remaining == CooldownSeconds - (current_time - ltt)
    IN  IF in_cooldown /\ time_remaining >= 0
        THEN [should_trigger |-> FALSE, reason |-> "Cooldown active",
              score |-> 0, in_cooldown |-> TRUE]
        ELSE IF data.combined_score >= ProductivityThreshold
        THEN [should_trigger |-> TRUE, reason |-> "Productivity detected",
              score |-> data.combined_score, in_cooldown |-> FALSE]
        ELSE [should_trigger |-> FALSE, reason |-> "reason",
              score |-> data.combined_score, in_cooldown |-> FALSE]

\*   Early : the elapsed time is measured one second too long
ShouldTriggerProtocolEarly(in_cooldown, ltt, current_time, data) ==
    LET time_remaining == CooldownSeconds - (current_time + 1 - ltt)
    IN  IF in_cooldown /\ time_remaining > 0
        THEN [should_trigger |-> FALSE, reason |-> "Cooldown active",
              score |-> 0, in_cooldown |-> TRUE]
        ELSE IF data.combined_score >= ProductivityThreshold
        THEN [should_trigger |-> TRUE, reason |-> "Productivity detected",
              score |-> data.combined_score, in_cooldown |-> FALSE]
        ELSE [should_trigger |-> FALSE, reason |-> "reason",
              score |-> data.combined_score, in_cooldown |-> FALSE]

\*   Strict : combined_score > threshold
ShouldTriggerProtocolStrict(in_cooldown, ltt, current_time, data) ==
    LET time_remaining == CooldownSeconds - (current_time - ltt)
    IN  IF in_cooldown /\ time_remaining > 0
        THEN [should_trigger |-> FALSE, reason |-> "Cooldown active",
              score |-> 0, in_cooldown |-> TRUE]
        ELSE IF data.combined_score > ProductivityThreshold
        THEN [should_trigger |-> TRUE, reason |-> "Productivity detected",
              score |-> data.combined_score, in_cooldown |-> FALSE]
        ELSE [should_trigger |-> FALSE, reason |-> "reason",
              score |-> data.combined_score, in_cooldown |-> FALSE]

\* called with the pre-computed productivity_data; returns the tuple and
\* the value of is_in_cooldown it leaves behind
ShouldTriggerProtocol(in_cooldown, ltt, current_time, data) ==
    LET time_remaining == CooldownSeconds - (current_time - ltt)
    IN  IF in_cooldown /\ time_remaining > 0
        THEN [should_trigger |-> FALSE, reason |-> "Cooldown active",
              score |-> 0, in_cooldown |-> TRUE]
        ELSE IF data.combined_score >= ProductivityThreshold
        THEN [should_trigger |-> TRUE, reason |-> "Productivity detected",
              score |-> data.combined_score, in_cooldown |-> FALSE]
        ELSE [should_trigger |-> FALSE, reason |-> "reason",
              score |-> data.combined_score, in_cooldown |-> FALSE]

\* ------------------------------------------- check_and_send_warnings
\* check_and_send_warnings without the rate limit
CheckAndSendWarningsUnlimited(level, wtime, current_time, score) ==
    LET current_threshold == CurrentThreshold(score)
    IN  IF current_threshold > level /\ current_threshold >= Full \div 10
        THEN [level |-> current_threshold, time |-> current_time, sent |-> TRUE]
        ELSE [level |-> level, time |-> wtime, sent |-> FALSE]

\* the level test as >= : a bucket is announced again after the rate limit
CheckAndSendWarningsRepeat(level, wtime, current_time, score) ==
    LET current_threshold == CurrentThreshold(score)
    IN  IF current_time - wtime < WarningCooldown
        THEN [level |-> level, time |-> wtime, sent |-> FALSE]
        ELSE IF current_threshold >= level /\ current_threshold >= Full \div 10
        THEN [level |-> current_threshold, time |-> current_time, sent |-> TRUE]
        ELSE [level |-> level, time |-> wtime, sent |-> FALSE]

\* the bucket recorded although the rate limit kept the warning back
CheckAndSendWarningsForgets(level, wtime, current_time, score) ==
    LET current_threshold == CurrentThreshold(score)
    IN  IF current_time - wtime < WarningCooldown
        THEN [level |-> Max(level, current_threshold), time |-> wtime,
              sent |-> FALSE]
        ELSE IF current_threshold > level /\ current_threshold >= Full \div 10
        THEN [level |-> current_threshold, time |-> current_time, sent |-> TRUE]
        ELSE [level |-> level, time |-> wtime, sent |-> FALSE]

\* returns the warning state it leaves behind and whether it notified
CheckAndSendWarnings(level, wtime, current_time, score) ==
    LET current_threshold == CurrentThreshold(score)
    IN  IF current_time - wtime < WarningCooldown
        THEN [level |-> level, time |-> wtime, sent |-> FALSE]
        ELSE IF current_threshold > level /\ current_threshold >= Full \div 10
        THEN [level |-> current_threshold, time |-> current_time, sent |-> TRUE]
        ELSE [level |-> level, time |-> wtime, sent |-> FALSE]

\* ------------------------------------------------------ the sinks
\* whether an exception leaves the call, given that the sink works (ok) or not
\* send_notification without its try/except
SendNotificationRaises(ok) == [raised |-> ~ok]

\* send_notification: every Exception ends in the console fallback
SendNotification(ok) == [raised |-> FALSE]

\* trigger_performative_protocol: launch_performative_protocol returns when
\* the overlay has been dismissed, or at once when it cannot be shown
TriggerPerformativeProtocol(ok) == [raised |-> FALSE, shown |-> ok]

\* ---------------------------------- the trigger branch of the loop
\* last_trigger_time, is_in_cooldown, then "Reset all tracking state",
\* then the auto-stop; trigger_time is the time.time() of the branch
\* the warning clock restarted at the trigger instead of cleared
TriggerResetWarningClock(trigger_time) ==
    [last_trigger_time  |-> trigger_time,
     is_in_cooldown     |-> TRUE,
     baseline_score     |-> 0,
     last_warning_level |-> 0,
     last_warning_time  |-> trigger_time,
     monitoring         |-> FALSE]

\* the trigger branch without its auto-stop
TriggerResetKeepsRunning(trigger_time) ==
    [last_trigger_time  |-> trigger_time,
     is_in_cooldown     |-> TRUE,
     baseline_score     |-> 0,
     last_warning_level |-> 0,
     last_warning_time  |-> 0,
     monitoring         |-> TRUE]

\* the trigger branch without the reset of the warning level
TriggerResetKeepsWarningLevel(trigger_time) ==
    [last_trigger_time  |-> trigger_time,
     is_in_cooldown     |-> TRUE,
     baseline_score     |-> 0,
     last_warning_level |-> last_warning_level,
     last_warning_time  |-> 0,
     monitoring         |-> FALSE]

TriggerReset(trigger_time) ==
    [last_trigger_time  |-> trigger_time,
     is_in_cooldown     |-> TRUE,
     baseline_score     |-> 0,
     last_warning_level |-> 0,
     last_warning_time  |-> 0,
     monitoring         |-> FALSE]

NoTick == [kind |-> "none"]

\* -------------------------------------------- the state at construction
\* loop threads the GUI may start within one behaviour
MaxThreads == 2
Threads == 1..MaxThreads

\* WindowTracker.__init__: current_window = None, window_start_time = None
NoWindow == "none"
NoTime == 0
FreshWindowTracker == [current_window |-> NoWindow, window_start_time |-> NoTime]

\* KeyboardTracker.__init__
FreshKeyboardTracker ==
    [total_keypresses |-> 0, typing_start_time |-> NoTime, monitoring |-> FALSE]

\* the trackers and the baseline of an orchestrator whose keyboard listener
\* has started and whose loop is running
FreshRun ==
    [keyboard |-> [FreshKeyboardTracker EXCEPT !.monitoring = TRUE],
     window |-> FreshWindowTracker,
     baseline_score |-> 0,
     phase |-> "monitoring"]

\* self.keyboard_tracker after DeProductifyOrchestrator.__init__: None
\* without use_keyboard_tracking; with it, a KeyboardTracker, whose
\* start_monitoring raises ImportError when pynput is missing, after the
\* field has been assigned
KeyboardTrackerAtInit(use_keyboard_tracking, pynput) ==
    IF ~use_keyboard_tracking THEN "none"
    ELSE IF pynput THEN "listening" ELSE "idle"

\* the GUI before Start is pressed, and fresh trackers
InitIdle ==
    /\ is_running = FALSE
    /\ threads = [t \in Threads |-> [pc |-> "unborn"]]
    /\ status_queue = << >>
    /\ tracker = FreshWindowTracker
    /\ runs = <<FreshRun, FreshRun>>

\* DeProductifyGUI.__init__ and the trackers of an orchestrator constructed
\* with the defaults
InitParts ==
    /\ InitIdle
    /\ keyboard_tracker = KeyboardTrackerAtInit(TRUE, TRUE)
    /\ obs = [kind |-> "none"]

\* DeProductifyOrchestrator.__init__ with the default threshold
InitEngine ==
    /\ monitoring = FALSE
    /\ loop = "none"
    /\ is_in_cooldown = FALSE
    /\ last_trigger_time = 0
    /\ baseline_score = 0
    /\ last_warning_level = 0
    /\ last_warning_time = 0
    /\ kb_monitoring = TRUE
    /\ now = BootTime
    /\ tick = NoTick
    /\ fired_at = << >>
    /\ trace = << >>
    /\ overlay_active = FALSE
    /\ productivity_threshold = DefaultThreshold

Init == InitEngine /\ InitParts

\* ------------------------------------------------------ the loop
\* start_monitoring_with_gui, entry (GUI Start button / console start)
StartMonitoring ==
    /\ loop = "none"
    /\ monitoring' = TRUE
    /\ loop' = "running"
    /\ UNCHANGED <<is_in_cooldown, last_trigger_time, baseline_score,
                   last_warning_level, last_warning_time, kb_monitoring, now,
                   tick, fired_at, trace, overlay_active,
                   productivity_threshold, parts>>

\* stop_monitoring that clears the flag and leaves the listener running
StopMonitoringFlagOnly ==
    /\ loop = "running"
    /\ monitoring
    /\ monitoring' = FALSE
    /\ UNCHANGED <<loop, is_in_cooldown, last_trigger_time, baseline_score,
                   last_warning_level, last_warning_time, kb_monitoring, now,
                   tick, fired_at, trace, overlay_active,
                   productivity_threshold, parts>>

\* DeProductifyOrchestrator.stop_monitoring (GUI Stop button)
StopMonitoring ==
    /\ loop = "running"
    /\ monitoring
    /\ monitoring' = FALSE
    /\ kb_monitoring' = FALSE
    /\ UNCHANGED <<loop, is_in_cooldown, last_trigger_time, baseline_score,
                   last_warning_level, last_warning_time, now, tick,
                   fired_at, trace, overlay_active,
                   productivity_threshold, parts>>

\* what a tick finds around it
\*   suppressed : the user is in an activity that is meant to veto triggers
\*   notify_ok  : the desktop notification can be delivered
\*   overlay_ok : the overlay can be shown
Calm == [suppressed |-> FALSE, notify_ok |-> TRUE, overlay_ok |-> TRUE]
Surroundings ==
    { Calm,
      [suppressed |-> TRUE,  notify_ok |-> TRUE,  overlay_ok |-> TRUE],
      [suppressed |-> FALSE, notify_ok |-> FALSE, overlay_ok |-> TRUE],
      [suppressed |-> FALSE, notify_ok |-> TRUE,  overlay_ok |-> FALSE] }

\* one iteration of `while self.monitoring:` in start_monitoring_with_gui
\*   det, trk, kb : what the producers run into
\*   env : the surroundings of the tick
\*   lag : seconds between the time.time() of should_trigger_protocol and
\*         the later time.time() of the warning or of the trigger
MonitoringTick(det, trk, kb, env, lag) ==
    /\ loop = "running"
    /\ monitoring
    /\ now + lag + CheckInterval <= MaxTime
    /\ LET sig  == CollectSignals(det, trk, kb)
           data == GetCombinedProductivityScore(baseline_score,
                       sig.detection_score, sig.tracking_score,
                       sig.keyboard_score)
           res  == ShouldTriggerProtocol(is_in_cooldown, last_trigger_time,
                                         now, data)
           warn_called == ~res.should_trigger /\ ~res.in_cooldown /\ res.score > 0
           unwarned == [level |-> last_warning_level,
                        time |-> last_warning_time, sent |-> FALSE]
           warn0 == IF warn_called
                    THEN CheckAndSendWarnings(last_warning_level,
                             last_warning_time, now + lag, res.score)
                    ELSE unwarned
           \* send_notification is called by a warning and by a trigger
           notify_attempt == res.should_trigger \/ warn0.sent
           notify_raised  == notify_attempt /\ SendNotification(env.notify_ok).raised
           warn   == IF notify_raised THEN unwarned ELSE warn0
           \* the trigger branch got past its notification
           fired  == res.should_trigger /\ ~notify_raised
           trg    == TriggerReset(now + lag)
           launch == TriggerPerformativeProtocol(env.overlay_ok)
           shown  == fired /\ ~launch.raised /\ launch.shown
           \* an exception leaves the loop: finally: self.stop_monitoring()
           crashed == sig.propagated \/ notify_raised \/ (fired /\ launch.raised)
           same_run == /\ tick.kind = "tick"
                       /\ ~tick.result.should_trigger
                       /\ tick.data.combined_score = data.combined_score
       IN  /\ IF fired
              THEN /\ last_trigger_time' = trg.last_trigger_time
                   /\ is_in_cooldown' = trg.is_in_cooldown
                   /\ baseline_score' = trg.baseline_score
                   /\ last_warning_level' = trg.last_warning_level
                   /\ last_warning_time' = trg.last_warning_time
                   /\ monitoring' = trg.monitoring
                   /\ fired_at' = Append(fired_at, now + lag)
              ELSE /\ last_trigger_time' = last_trigger_time
                   /\ is_in_cooldown' = res.in_cooldown
                   /\ baseline_score' = data.baseline_score
                   /\ last_warning_level' = warn.level
                   /\ last_warning_time' = warn.time
                   /\ monitoring' = (monitoring /\ ~crashed)
                   /\ fired_at' = fired_at
           /\ loop' = IF crashed THEN "none"
                      ELSE IF shown THEN "overlay" ELSE "running"
           /\ kb_monitoring' = (kb_monitoring /\ ~crashed)
           /\ overlay_active' = (overlay_active \/ shown)
           \* the sleep of a tick that shows the overlay comes after the
           \* overlay has returned
           /\ now' = IF shown \/ crashed THEN now + lag
                     ELSE now + lag + CheckInterval
           /\ tick' = [kind          |-> "tick",
                       pre_baseline  |-> baseline_score,
                       pre_cooldown  |-> is_in_cooldown,
                       pre_trigger_time |-> last_trigger_time,
                       pre_warning_level |-> last_warning_level,
                       pre_warning_time |-> last_warning_time,
                       check_time    |-> now,
                       collected     |-> TRUE,
                       det           |-> det,
                       trk           |-> trk,
                       kb            |-> kb,
                       suppressed    |-> env.suppressed,
                       data          |-> data,
                       result        |-> [should_trigger |-> res.should_trigger,
                                          reason |-> res.reason,
                                          score |-> res.score],
                       cooldown_after_check |-> res.in_cooldown,
                       warn_called   |-> warn_called,
                       warn_time     |-> now + lag,
                       warned        |-> warn.sent,
                       notify_failed |-> notify_attempt /\ ~env.notify_ok,
                       overlay_failed |-> fired /\ ~env.overlay_ok,
                       exception     |-> crashed,
                       run_warnings  |-> (IF same_run THEN tick.run_warnings
                                          ELSE 0)
                                         + (IF warn.sent THEN 1 ELSE 0)]
    /\ UNCHANGED <<trace, productivity_threshold, parts>>

\* the third click on the matcha dismisses the overlay: root.mainloop()
\* returns, launch_performative_protocol returns, the loop sleeps
OverlayDismissed ==
    /\ loop = "overlay"
    /\ overlay_active
    /\ now + CheckInterval <= MaxTime
    /\ overlay_active' = FALSE
    /\ loop' = "running"
    /\ now' = now + CheckInterval
    /\ UNCHANGED <<monitoring, is_in_cooldown, last_trigger_time,
                   baseline_score, last_warning_level, last_warning_time,
                   kb_monitoring, tick, fired_at, trace,
                   productivity_threshold, parts>>

\* the loop condition is false: finally: self.stop_monitoring()
LoopExit ==
    /\ loop = "running"
    /\ ~monitoring
    /\ loop' = "none"
    /\ monitoring' = FALSE
    /\ kb_monitoring' = FALSE
    /\ UNCHANGED <<is_in_cooldown, last_trigger_time, baseline_score,
                   last_warning_level, last_warning_time, now, tick,
                   fired_at, trace, overlay_active,
                   productivity_threshold, parts>>

\* time passes (slow capture, the overlay waiting for its clicks, idling)
TimePasses ==
    /\ now < MaxTime
    /\ now' = now + 1
    /\ UNCHANGED <<monitoring, loop, is_in_cooldown, last_trigger_time,
                   baseline_score, last_warning_level, last_warning_time,
                   kb_monitoring, tick, fired_at, trace, overlay_active,
                   productivity_threshold, parts>>

Next ==
    \/ StartMonitoring
    \/ StopMonitoring
    \/ \E in \in TickInputs, lag \in 0..MaxLag :
          MonitoringTick(in[1], in[2], in[3], Calm, lag)
    \/ OverlayDismissed
    \/ LoopExit
    \/ TimePasses

Spec == Init /\ [][Next]_vars

\* the loop thread gets to run: a loop whose condition is false exits
SpecLive == Spec /\ WF_vars(LoopExit)

\* ----------------------------------------------------- SpecFaults
NextFaults ==
    \/ StartMonitoring
    \/ StopMonitoring
    \/ \E in \in FocusedInputs, env \in Surroundings, lag \in 0..MaxLag :
          MonitoringTick(in[1], in[2], in[3], env, lag)
    \/ OverlayDismissed
    \/ LoopExit
    \/ TimePasses

SpecFaults == Init /\ [][NextFaults]_vars

\* ----------------------------------------------------- SpecConfig
\* productivity_threshold arguments: 0.0, the default 0.5, 1.0 and 1.5
ThresholdArguments == {0, DefaultThreshold, Full, 3 * (Full \div 2)}

\* DeProductifyOrchestrator(productivity_threshold = th)
InitConfig ==
    /\ monitoring = FALSE
    /\ loop = "none"
    /\ is_in_cooldown = FALSE
    /\ last_trigger_time = 0
    /\ baseline_score = 0
    /\ last_warning_level = 0
    /\ last_warning_time = 0
    /\ kb_monitoring = TRUE
    /\ now = BootTime
    /\ tick = NoTick
    /\ fired_at = <<>>
    /\ trace = <<>>
    /\ overlay_active = FALSE
    /\ productivity_threshold \in ThresholdArguments
    /\ InitParts

NextConfig ==
    \/ StartMonitoring
    \/ StopMonitoring
    \/ \E in \in FocusedInputs, lag \in 0..MaxLag :
          MonitoringTick(in[1], in[2], in[3], Calm, lag)
    \/ OverlayDismissed
    \/ LoopExit
    \/ TimePasses

SpecConfig == InitConfig /\ [][NextConfig]_vars

\* -------------------------------------------------------- SpecGui
\* The GUI thread (Start, Stop, the poll of the status queue) and the loop
\* threads it starts.  A loop iteration is three steps here: the collection
\* (get_combined_productivity_score), the decision (should_trigger_protocol
\* and what follows it) and the sleep.  A thread is at
\*   "unborn" : not started          "begin"  : started, before line 411
\*   "top"    : the while test       "scored" : between collection and decision
\*   "sleep"  : time.sleep           "overlay": trigger_performative_protocol
\*   "done"   : past the finally block
InLoop == {"top", "scored", "sleep", "overlay"}
At(t, pc) == threads[t].pc = pc
Goto(t, pc) == [threads EXCEPT ![t] = [pc |-> pc]]
Stopped == "stopped"
MaxQueue == 3

\* two screens with a productive application in focus: raw 0.32 and 0.72
GuiInputs ==
    { <<Returns(0), Verdict(TRUE), Typing(0)>>,
      <<Returns(One), Verdict(TRUE), Typing(0)>> }

\* DeProductifyGUI.start_monitoring (Start button): a new thread each time
GuiStart ==
    /\ ~is_running
    /\ \E t \in Threads :
          /\ At(t, "unborn")
          /\ \A u \in Threads : u < t => ~At(u, "unborn")
          /\ threads' = Goto(t, "begin")
    /\ is_running' = TRUE
    /\ UNCHANGED <<engine, status_queue, tracker, runs, keyboard_tracker, obs>>

\* DeProductifyGUI.stop_monitoring (Stop button) and, through it,
\* DeProductifyOrchestrator.stop_monitoring
GuiStop ==
    /\ is_running
    /\ is_running' = FALSE
    /\ monitoring' = FALSE
    /\ kb_monitoring' = FALSE
    /\ UNCHANGED <<loop, is_in_cooldown, last_trigger_time, baseline_score,
                   last_warning_level, last_warning_time, now, tick,
                   fired_at, trace, overlay_active, productivity_threshold,
                   threads, status_queue, tracker, runs, keyboard_tracker, obs>>

\* DeProductifyGUI.check_status_updates: drains the queue
GuiPoll ==
    /\ status_queue # << >>
    /\ status_queue' = << >>
    /\ is_running' = FALSE
    /\ UNCHANGED <<engine, threads, tracker, runs, keyboard_tracker, obs>>

\* start_monitoring_with_gui, line 411: self.monitoring = True
ThreadBegin(t) ==
    /\ At(t, "begin")
    /\ monitoring' = TRUE
    /\ threads' = Goto(t, "top")
    /\ UNCHANGED <<loop, is_in_cooldown, last_trigger_time, baseline_score,
                   last_warning_level, last_warning_time, kb_monitoring, now,
                   tick, fired_at, trace, overlay_active,
                   productivity_threshold, is_running, status_queue, tracker,
                   runs, keyboard_tracker, obs>>

\* the while test holds: get_combined_productivity_score
ThreadCollect(t, det, trk, kb) ==
    /\ At(t, "top")
    /\ monitoring
    /\ LET sig  == CollectSignals(det, trk, kb)
           data == GetCombinedProductivityScore(baseline_score,
                       sig.detection_score, sig.tracking_score,
                       sig.keyboard_score)
       IN  /\ baseline_score' = data.baseline_score
           /\ threads' = [threads EXCEPT ![t] = [pc |-> "scored", data |-> data]]
    /\ UNCHANGED <<monitoring, loop, is_in_cooldown, last_trigger_time,
                   last_warning_level, last_warning_time, kb_monitoring, now,
                   tick, fired_at, trace, overlay_active,
                   productivity_threshold, is_running, status_queue, tracker,
                   runs, keyboard_tracker, obs>>

\* should_trigger_protocol, the warnings and the trigger branch
ThreadDecide(t) ==
    /\ At(t, "scored")
    /\ LET data == threads[t].data
           res  == ShouldTriggerProtocol(is_in_cooldown, last_trigger_time,
                                         now, data)
           warn == IF ~res.should_trigger /\ ~res.in_cooldown /\ res.score > 0
                   THEN CheckAndSendWarnings(last_warning_level,
                            last_warning_time, now, res.score)
                   ELSE [level |-> last_warning_level,
                         time |-> last_warning_time, sent |-> FALSE]
           trg  == TriggerReset(now)
       IN  IF res.should_trigger
           THEN /\ Len(status_queue) < MaxQueue
                /\ last_trigger_time' = trg.last_trigger_time
                /\ is_in_cooldown' = trg.is_in_cooldown
                /\ baseline_score' = trg.baseline_score
                /\ last_warning_level' = trg.last_warning_level
                /\ last_warning_time' = trg.last_warning_time
                /\ monitoring' = trg.monitoring
                /\ fired_at' = Append(fired_at, now)
                /\ status_queue' = Append(status_queue, Stopped)
                /\ overlay_active' = TRUE
                /\ threads' = Goto(t, "overlay")
           ELSE /\ last_trigger_time' = last_trigger_time
                /\ is_in_cooldown' = res.in_cooldown
                /\ baseline_score' = baseline_score
                /\ last_warning_level' = warn.level
                /\ last_warning_time' = warn.time
                /\ monitoring' = monitoring
                /\ fired_at' = fired_at
                /\ status_queue' = status_queue
                /\ overlay_active' = overlay_active
                /\ threads' = [threads EXCEPT ![t] =
                                  [pc |-> "sleep", wake |-> now + CheckInterval]]
    /\ UNCHANGED <<loop, kb_monitoring, now, tick, trace,
                   productivity_threshold, is_running, tracker, runs, keyboard_tracker, obs>>

\* the overlay of this thread is dismissed; the thread goes on to its sleep
ThreadDismissed(t) ==
    /\ At(t, "overlay")
    /\ overlay_active' = (\E u \in Threads \ {t} : At(u, "overlay"))
    /\ threads' = [threads EXCEPT ![t] =
                      [pc |-> "sleep", wake |-> now + CheckInterval]]
    /\ UNCHANGED <<monitoring, loop, is_in_cooldown, last_trigger_time,
                   baseline_score, last_warning_level, last_warning_time,
                   kb_monitoring, now, tick, fired_at, trace,
                   productivity_threshold, is_running, status_queue, tracker,
                   runs, keyboard_tracker, obs>>

\* time.sleep(check_interval) returns
ThreadWake(t) ==
    /\ At(t, "sleep")
    /\ now >= threads[t].wake
    /\ threads' = Goto(t, "top")
    /\ UNCHANGED <<engine, is_running, status_queue, tracker, runs, keyboard_tracker, obs>>

\* the while test fails: finally: stop_monitoring(), "stopped" to the GUI
ThreadExit(t) ==
    /\ At(t, "top")
    /\ ~monitoring
    /\ Len(status_queue) < MaxQueue
    /\ monitoring' = FALSE
    /\ kb_monitoring' = FALSE
    /\ status_queue' = Append(status_queue, Stopped)
    /\ threads' = Goto(t, "done")
    /\ UNCHANGED <<loop, is_in_cooldown, last_trigger_time, baseline_score,
                   last_warning_level, last_warning_time, now, tick,
                   fired_at, trace, overlay_active, productivity_threshold,
                   is_running, tracker, runs, keyboard_tracker, obs>>

NextGui ==
    \/ GuiStart
    \/ GuiStop
    \/ GuiPoll
    \/ \E t \in Threads : ThreadBegin(t)
    \/ \E t \in Threads, in \in GuiInputs :
          ThreadCollect(t, in[1], in[2], in[3])
    \/ \E t \in Threads : ThreadDecide(t)
    \/ \E t \in Threads : ThreadDismissed(t)
    \/ \E t \in Threads : ThreadWake(t)
    \/ \E t \in Threads : ThreadExit(t)
    \/ TimePasses

SpecGui == Init /\ [][NextGui]_vars

\* ----------------------------------------------------- SpecDetect
\* ProductivityDetector.compute_visual_score: the five heuristics and the
\* points each adds when it fires
Heuristics == {"bright_document", "text_density", "work_keywords",
               "lecture", "math"}
Points(h) ==
    CASE h = "bright_document" -> 30 * (One \div 100)
      [] h = "text_density"    -> 20 * (One \div 100)
      [] h = "work_keywords"   -> 20 * (One \div 100)
      [] h = "lecture"         -> 15 * (One \div 100)
      [] h = "math"            -> 15 * (One \div 100)

RECURSIVE SumPoints(_)
SumPoints(fired) ==
    IF fired = {} THEN 0
    ELSE LET h == CHOOSE x \in fired : TRUE
         IN  Points(h) + SumPoints(fired \ {h})

\* productivity_score = min(sum(score_components), 1.0)
HeuristicScore(fired) == Min(SumPoints(fired), One)

\* self.gemini_fallback_threshold = 0.2
GeminiFallbackThreshold == 2 * (One \div 10)

\* what a call of GeminiClassifier.classify_productivity comes to
\*   "raises"         : an exception leaves the call
\*   "api_error"      : generate_content failed; the call returns the
\*                      not-productive, unsure classification
\*   "not_productive", "unsure", "confident" : the answer; the last two
\*                      say productive with that confidence
Answers == {"raises", "api_error", "not_productive", "unsure", "confident"}
ClassifyProductivity(answer) ==
    [raised        |-> answer = "raises",
     is_productive |-> answer \in {"unsure", "confident"},
     confidence    |-> IF answer = "confident" THEN "confident" ELSE "unsure"]

\* a classifier that decides: a confident answer sets the score to 1.0
GeminiBoostDecides(score, cls) ==
    IF cls.confidence = "confident"
    THEN One
    ELSE Min(score + 2 * (One \div 10), One)

\* min(productivity_score + 0.4, 1.0) when confident, + 0.2 otherwise
GeminiBoost(score, cls) ==
    IF cls.confidence = "confident"
    THEN Min(score + 4 * (One \div 10), One)
    ELSE Min(score + 2 * (One \div 10), One)

\* compute_visual_score that asks the classifier whatever the heuristics say
ComputeVisualScoreAlwaysAsks(fired, ocr_text, gemini, answer) ==
    LET heuristic == HeuristicScore(fired)
        cls     == ClassifyProductivity(answer)
        consult == gemini /\ ocr_text
        boosted == consult /\ ~cls.raised /\ cls.is_productive
    IN  [productivity_score |-> IF boosted THEN GeminiBoost(heuristic, cls)
                                ELSE heuristic,
         triggers_activated |-> Cardinality(fired)
                                  + (IF boosted /\ cls.confidence = "confident"
                                     THEN 1 ELSE 0),
         gemini_used |-> consult /\ ~cls.raised,
         consulted   |-> consult,
         boosts      |-> IF boosted THEN 1 ELSE 0]

\* compute_visual_score, given the heuristics that fire on the image,
\* whether OCR found text, whether a classifier is configured and what
\* the classifier call comes to
ComputeVisualScore(fired, ocr_text, gemini, answer) ==
    LET heuristic == HeuristicScore(fired)
        cls     == ClassifyProductivity(answer)
        consult == /\ gemini
                   /\ (Cardinality(fired) = 0
                         \/ heuristic < GeminiFallbackThreshold)
                   /\ ocr_text
        boosted == consult /\ ~cls.raised /\ cls.is_productive
    IN  [productivity_score |-> IF boosted THEN GeminiBoost(heuristic, cls)
                                ELSE heuristic,
         triggers_activated |-> Cardinality(fired)
                                  + (IF boosted /\ cls.confidence = "confident"
                                     THEN 1 ELSE 0),
         gemini_used |-> consult /\ ~cls.raised,
         consulted   |-> consult,
         boosts      |-> IF boosted THEN 1 ELSE 0]

\* analyze_screen: the capture, compute_visual_score, and the second
\* classifier call with the application name when no trigger is counted
AnalyzeScreen(captured, fired, ocr_text, gemini, app_name, answer1, answer2) ==
    IF ~captured
    THEN [productivity_score |-> 0, triggers_activated |-> 0,
          gemini_used |-> FALSE, consulted |-> 0, boosts |-> 0]
    ELSE LET first  == ComputeVisualScore(fired, ocr_text, gemini, answer1)
             again  == /\ gemini
                       /\ app_name
                       /\ first.triggers_activated = 0
                       /\ ocr_text
             cls    == ClassifyProductivity(answer2)
             boosted == again /\ ~cls.raised /\ cls.is_productive
         IN  [productivity_score |->
                  IF boosted THEN GeminiBoost(first.productivity_score, cls)
                  ELSE first.productivity_score,
              triggers_activated |-> first.triggers_activated
                                       + (IF boosted THEN 1 ELSE 0),
              gemini_used |-> first.gemini_used \/ boosted,
              consulted   |-> (IF first.consulted THEN 1 ELSE 0)
                                + (IF again THEN 1 ELSE 0),
              boosts      |-> first.boosts + (IF boosted THEN 1 ELSE 0)]

\* the screens: without OCR text only the brightness heuristic can fire
Screens ==
    { [captured |-> c, fired |-> f, ocr_text |-> o, gemini |-> g,
       app_name |-> a, answer1 |-> a1, answer2 |-> a2] :
        c \in BOOLEAN, f \in SUBSET Heuristics, o \in BOOLEAN,
        g \in BOOLEAN, a \in BOOLEAN, a1 \in Answers, a2 \in Answers }

InitDetect ==
    /\ InitEngine
    /\ InitIdle
    /\ keyboard_tracker = KeyboardTrackerAtInit(TRUE, TRUE)
    /\ \E sc \in Screens :
          /\ sc.ocr_text \/ sc.fired \subseteq {"bright_document"}
          /\ obs = [kind |-> "screen", screen |-> sc]

\* self.detector.analyze_screen(app_name, window_title)
AnalyzeCall ==
    /\ obs.kind = "screen"
    /\ LET sc == obs.screen
       IN  obs' = [kind |-> "analysis", screen |-> sc,
                   heuristic |-> HeuristicScore(sc.fired),
                   visual |-> ComputeVisualScore(sc.fired, sc.ocr_text,
                                  sc.gemini, sc.answer1),
                   result |-> AnalyzeScreen(sc.captured, sc.fired, sc.ocr_text,
                                  sc.gemini, sc.app_name, sc.answer1,
                                  sc.answer2)]
    /\ UNCHANGED <<engine, is_running, threads, status_queue, tracker, runs,
                   keyboard_tracker>>

NextDetect == AnalyzeCall

SpecDetect == InitDetect /\ [][NextDetect]_vars

\* ---------------------------------------------------- SpecTracker
\* the windows that can be in front.  For each, the app name and title
\* get_active_window returns, and what the substring tests of the tracker
\* find in them:
\*   productive_pattern : a PRODUCTIVE_APPS pattern occurs in the app name or
\*                        in the title (the browser names are among them)
\*   non_productive_app : the lower-cased app name is in NON_PRODUCTIVE_APPS
\*   is_browser         : a browser pattern occurs in the title ('arc'
\*                        occurs in "Search")
\*   tab_count          : the number in "(N)" in the title, 0 without one
\*   long_title         : the title has more than 100 characters
\*   productive_site    : a PRODUCTIVE_SITES pattern occurs in the tab part
Desktop ==
    [vscode |->
        [app_name |-> "Code", window_title |-> "main.py - Visual Studio Code",
         productive_pattern |-> TRUE, non_productive_app |-> FALSE,
         is_browser |-> FALSE, tab_count |-> 0, long_title |-> FALSE,
         productive_site |-> FALSE],
     chrome_github |->
        [app_name |-> "Google Chrome",
         window_title |-> "GitHub (6) - Google Chrome",
         productive_pattern |-> TRUE, non_productive_app |-> FALSE,
         is_browser |-> TRUE, tab_count |-> 6, long_title |-> FALSE,
         productive_site |-> TRUE],
     music_search |->
        [app_name |-> "Music", window_title |-> "Search wikipedia (5)",
         productive_pattern |-> TRUE, non_productive_app |-> TRUE,
         is_browser |-> TRUE, tab_count |-> 5, long_title |-> FALSE,
         productive_site |-> TRUE],
     spotify |->
        [app_name |-> "Spotify", window_title |-> "Daily Mix 1",
         productive_pattern |-> FALSE, non_productive_app |-> TRUE,
         is_browser |-> FALSE, tab_count |-> 0, long_title |-> FALSE,
         productive_site |-> FALSE],
     finder |->
        [app_name |-> "Finder", window_title |-> "Downloads",
         productive_pattern |-> FALSE, non_productive_app |-> FALSE,
         is_browser |-> FALSE, tab_count |-> 0, long_title |-> FALSE,
         productive_site |-> FALSE]]

Windows == DOMAIN Desktop

\* what get_active_window can return
ActiveWindows == Windows \cup {NoWindow}

\* focus_duration_threshold the tracker is constructed with (the default
\* is 60 seconds)
FocusDurationThreshold == 3

\* detect_tab_bar_overload(window_title, threshold = 5)
TabOverloadThreshold == 5

\* WindowTracker.detect_app_interface
DetectAppInterface(w) ==
    /\ w # NoWindow
    /\ Desktop[w].productive_pattern
    /\ ~Desktop[w].non_productive_app

\* WindowTracker.parse_tab_bar
ParseTabBar(w) ==
    IF ~Desktop[w].is_browser
    THEN [is_browser |-> FALSE, tab_count |-> 0, is_productive_tab |-> FALSE]
    ELSE [is_browser |-> TRUE, tab_count |-> Desktop[w].tab_count,
          is_productive_tab |-> Desktop[w].productive_site]

\* WindowTracker.detect_tab_bar_overload
DetectTabBarOverload(w) ==
    LET tab_info == ParseTabBar(w)
    IN  IF ~tab_info.is_browser THEN FALSE
        ELSE IF tab_info.tab_count > 0
             THEN tab_info.tab_count >= TabOverloadThreshold
             ELSE Desktop[w].long_title

\* WindowTracker.track_window_focus with window w in front at
\* current_time: the tracker afterwards and the returned dictionary
TrackWindowFocus(trk, w, current_time) ==
    IF w = NoWindow
    THEN [tracker |-> [trk EXCEPT !.window_start_time = NoTime],
          current_window |-> NoWindow, is_productive_app |-> FALSE,
          focus_duration |-> 0, window_changed |-> FALSE]
    ELSE LET window_changed == trk.current_window # w
             start == IF window_changed THEN current_time
                      ELSE trk.window_start_time
         IN  [tracker |-> [current_window |-> w, window_start_time |-> start],
              current_window |-> w,
              is_productive_app |-> DetectAppInterface(w),
              focus_duration |-> IF start # NoTime THEN current_time - start
                                 ELSE 0,
              window_changed |-> window_changed]

\* WindowTracker.should_trigger_protocol(require_focus_duration=True), the
\* definition in force: the tracker afterwards, the verdict and the focus
\* information the verdict was taken from
WindowShouldTriggerProtocol(trk, w, current_time) ==
    LET focus_info == TrackWindowFocus(trk, w, current_time)
        trigger ==
            IF focus_info.current_window = NoWindow THEN FALSE
            ELSE IF focus_info.is_productive_app
                 THEN focus_info.focus_duration >= FocusDurationThreshold
                 ELSE DetectTabBarOverload(w)
                        /\ ParseTabBar(w).is_productive_tab
    IN  [tracker |-> focus_info.tracker, trigger |-> trigger,
         focus_info |-> focus_info]

\* the time at which the window in front most recently became the one in
\* front, as the observations so far show it (observation)
Since(w, current_time) ==
    IF obs.kind \in {"focus", "verdict"} /\ obs.window = w
    THEN obs.since ELSE current_time

\* a call of track_window_focus
ObserveFocus(w) ==
    /\ LET r == TrackWindowFocus(tracker, w, now)
       IN  /\ tracker' = r.tracker
           /\ obs' = [kind |-> "focus", window |-> w, since |-> Since(w, now),
                      at |-> now, focus_info |-> r, trigger |-> FALSE]
    /\ UNCHANGED <<engine, is_running, threads, status_queue, runs,
                   keyboard_tracker>>

\* a call of should_trigger_protocol(require_focus_duration=True)
AskTracker(w) ==
    /\ LET r == WindowShouldTriggerProtocol(tracker, w, now)
       IN  /\ tracker' = r.tracker
           /\ obs' = [kind |-> "verdict", window |-> w,
                      since |-> Since(w, now), at |-> now,
                      focus_info |-> r.focus_info, trigger |-> r.trigger]
    /\ UNCHANGED <<engine, is_running, threads, status_queue, runs,
                   keyboard_tracker>>

NextTracker ==
    \/ \E w \in ActiveWindows : ObserveFocus(w)
    \/ \E w \in ActiveWindows : AskTracker(w)
    \/ TimePasses

SpecTracker == Init /\ [][NextTracker]_vars

\* ---------------------------------------------------- SpecCollect
\* KeyboardTracker(steady_typing_threshold = 15.0,
\*                 keypress_rate_threshold = 2.0)
SteadyTypingThreshold == 15
KeypressRateThreshold == 2

\* the statistics of a tracker that has seen no key
ZeroStats ==
    [keys_per_second |-> 0, current_typing_duration |-> 0, word_estimate |-> 0]

\* statistics['is_typing_steadily']
IsTypingSteadily(stats) ==
    /\ stats.keys_per_second >= KeypressRateThreshold
    /\ stats.current_typing_duration >= SteadyTypingThreshold

\* KeyboardTracker.get_activity_score
GetActivityScore(stats) ==
    Min(  (IF IsTypingSteadily(stats) THEN 4 * (One \div 10) ELSE 0)
        + (IF 2 * stats.keys_per_second >= 3 * KeypressRateThreshold
           THEN 3 * (One \div 10) ELSE 0)
        + (IF stats.word_estimate >= 50 THEN 2 * (One \div 10) ELSE 0)
        + (IF stats.current_typing_duration > 0 /\ stats.keys_per_second > 0
           THEN One \div 10 ELSE 0),
        One)

\* KeyboardTracker.detect_productive_typing
DetectProductiveTyping(stats) ==
    \/ IsTypingSteadily(stats)
    \/ stats.keys_per_second >= 2 * KeypressRateThreshold
    \/ stats.word_estimate >= 100

\* step 1 of get_combined_productivity_score: analyze_screen raises, or
\* returns its results for the screen
DetectionStep(raises, screen) ==
    IF raises
    THEN [score |-> 0, triggers |-> << >>, raised |-> TRUE]
    ELSE LET r == AnalyzeScreen(screen.captured, screen.fired,
                      screen.ocr_text, screen.gemini, screen.app_name,
                      screen.answer1, screen.answer2)
             named == r.productivity_score > 0 /\ r.triggers_activated > 0
         IN  [score |-> r.productivity_score,
              triggers |->
                  (IF named THEN <<"Visual detection">> ELSE << >>)
                  \o (IF named /\ r.gemini_used
                      THEN <<"AI (Gemini) detected productivity">>
                      ELSE << >>),
              raised |-> FALSE]

\* step 2: track_window_focus, should_trigger_protocol, and the
\* tab-overload branch, which lists its trigger and then reads
\* tracking_score before any assignment to it
TrackingStep(trk, w, current_time) ==
    LET focus_info == TrackWindowFocus(trk, w, current_time)
        verdict == WindowShouldTriggerProtocol(focus_info.tracker, w,
                                               current_time)
        overload == /\ w # NoWindow
                    /\ DetectTabBarOverload(w)
                    /\ ParseTabBar(w).is_productive_tab
    IN  IF verdict.trigger
        THEN [tracker |-> verdict.tracker, trigger |-> TRUE,
              score |-> TrackingScore(TRUE),
              triggers |-> <<"Active app focus">>, raised |-> FALSE]
        ELSE [tracker |-> verdict.tracker, trigger |-> FALSE,
              score |-> TrackingScore(FALSE),
              triggers |-> IF overload THEN <<"Tab overload">> ELSE << >>,
              raised |-> w = NoWindow \/ overload]

\* the keyboard step reading the typing whether or not a tracker listens
KeyboardStepAlwaysListening(kt, typing) ==
    [score |-> GetActivityScore(typing),
     triggers |-> IF GetActivityScore(typing) > 0
                     /\ DetectProductiveTyping(typing)
                  THEN <<"Keyboard">> ELSE << >>,
     raised |-> FALSE]

\* step 3: skipped without a tracker; a tracker whose listener never
\* started has the statistics of no key
KeyboardStep(kt, typing) ==
    IF kt = "none"
    THEN [score |-> 0, triggers |-> << >>, raised |-> FALSE]
    ELSE LET stats == IF kt = "listening" THEN typing ELSE ZeroStats
         IN  [score |-> GetActivityScore(stats),
              triggers |-> IF GetActivityScore(stats) > 0
                              /\ DetectProductiveTyping(stats)
                           THEN <<"Keyboard">> ELSE << >>,
              raised |-> FALSE]

\* results['reason']; the triggers stand for their join with " | "
NoIndicators == "No productivity indicators detected"
Reason(triggers) == IF triggers # << >> THEN triggers ELSE <<NoIndicators>>

\* screens of the collection steps: nothing on it; a bright document;
\* text the classifier is unsure about; everything at once
BlankScreen ==
    [captured |-> TRUE, fired |-> {}, ocr_text |-> FALSE, gemini |-> FALSE,
     app_name |-> FALSE, answer1 |-> "raises", answer2 |-> "raises"]
BrightScreen == [BlankScreen EXCEPT !.fired = {"bright_document"}]
UnsureScreen ==
    [BlankScreen EXCEPT !.ocr_text = TRUE, !.gemini = TRUE,
                        !.answer1 = "unsure"]
BusyScreen ==
    [BlankScreen EXCEPT !.fired = Heuristics, !.ocr_text = TRUE,
                        !.app_name = TRUE]

\* typing at the moment of a call
Pecking ==
    [keys_per_second |-> 1, current_typing_duration |-> 1, word_estimate |-> 0]
EssayTyped ==
    [keys_per_second |-> 0, current_typing_duration |-> SteadyTypingThreshold,
     word_estimate |-> 50]
InFlow ==
    [keys_per_second |-> 2 * KeypressRateThreshold,
     current_typing_duration |-> SteadyTypingThreshold, word_estimate |-> 100]

\* what a call can meet, as <<screen, window, typing>>
Scenes ==
    { <<BlankScreen,  NoWindow,        ZeroStats>>,
      <<BlankScreen,  "finder",        Pecking>>,
      <<UnsureScreen, "spotify",       ZeroStats>>,
      <<BrightScreen, "vscode",        EssayTyped>>,
      <<BusyScreen,   "vscode",        InFlow>>,
      <<BlankScreen,  "vscode",        ZeroStats>>,
      <<BlankScreen,  "chrome_github", ZeroStats>>,
      <<BusyScreen,   "music_search",  InFlow>> }

\* an orchestrator constructed with or without keyboard tracking, with or
\* without pynput installed
InitCollect ==
    /\ InitEngine
    /\ InitIdle
    /\ \E u \in BOOLEAN, p \in BOOLEAN :
          keyboard_tracker = KeyboardTrackerAtInit(u, p)
    /\ obs = [kind |-> "none"]

\* one call of get_combined_productivity_score, the three steps as the
\* modules compute them
CollectCall(raises, screen, w, typing) ==
    LET det == DetectionStep(raises, screen)
        trk == TrackingStep(tracker, w, now)
        kb  == KeyboardStep(keyboard_tracker, typing)
        data == GetCombinedProductivityScore(baseline_score, det.score,
                                             trk.score, kb.score)
        triggers == det.triggers \o trk.triggers \o kb.triggers
    IN  /\ baseline_score' = data.baseline_score
        /\ tracker' = trk.tracker
        /\ obs' = [kind |-> "collected", window |-> w, typing |-> typing,
                   detection |-> det, tracking |-> trk, keyboard |-> kb,
                   data |-> data, triggers |-> triggers,
                   reason |-> Reason(triggers)]
        /\ UNCHANGED <<monitoring, loop, is_in_cooldown, last_trigger_time,
                       last_warning_level, last_warning_time, kb_monitoring,
                       now, tick, fired_at, trace, overlay_active,
                       productivity_threshold, is_running, threads,
                       status_queue, runs, keyboard_tracker>>

NextCollect ==
    \/ \E sc \in Scenes : CollectCall(FALSE, sc[1], sc[2], sc[3])
    \/ CollectCall(TRUE, BusyScreen, "vscode", InFlow)
    \/ TimePasses

SpecCollect == InitCollect /\ [][NextCollect]_vars

\* ------------------------------------------------------ SpecFresh
\* two orchestrators side by side.  Before their triggers each sees its
\* own activity; after both have been restarted they see the same.
\* keys typed between two ticks: none, or an essay of fifty words followed
\* by a pause, so that the rate over the last five seconds is 0 at the tick
Burst == 5 * 50
MaxKeypresses == 500

\* KeyboardTracker._on_keypress for n keys at time t; a stopped listener
\* delivers none
OnKeypress(kbt, n, t) ==
    IF ~kbt.monitoring \/ n = 0 THEN kbt
    ELSE [kbt EXCEPT !.total_keypresses = @ + n,
                     !.typing_start_time = IF @ = NoTime THEN t ELSE @]

\* KeyboardTracker._update_statistics at time t, with the rate the last
\* five seconds of keypress_history give
UpdateStatistics(kbt, keys_per_second, t) ==
    [keys_per_second |-> keys_per_second,
     current_typing_duration |->
         IF kbt.typing_start_time # NoTime THEN t - kbt.typing_start_time
         ELSE 0,
     word_estimate |-> kbt.total_keypresses \div 5]

\* what an orchestrator can meet on a tick before its trigger, as
\* <<screen, window, keys typed since the last tick>>
AtWork == <<BusyScreen, "vscode", 0>>
Writing == <<BusyScreen, "vscode", Burst>>
Browsing == <<BlankScreen, "finder", 0>>

\* what the two meet on the same tick before their triggers: the same, or
\* the second one typing or looking elsewhere
ScenesBefore ==
    { <<AtWork, AtWork>>, <<AtWork, Writing>>, <<AtWork, Browsing>>,
      <<Browsing, Browsing>> }

\* what both meet on a tick after the restart
ScenesAfter ==
    { <<BlankScreen, "vscode", 0>>,
      <<BlankScreen, "finder", Burst>> }

\* get_combined_productivity_score in one orchestrator at time t: its
\* trackers and baseline afterwards, and the returned dictionary
RunCollect(run, scene, t) ==
    LET kbt == OnKeypress(run.keyboard, scene[3], t)
        det == DetectionStep(FALSE, scene[1])
        trk == TrackingStep(run.window, scene[2], t)
        kb  == KeyboardStep("listening", UpdateStatistics(kbt, 0, t))
        data == GetCombinedProductivityScore(run.baseline_score, det.score,
                                             trk.score, kb.score)
    IN  [run |-> [run EXCEPT !.keyboard = kbt, !.window = trk.tracker,
                             !.baseline_score = data.baseline_score],
         data |-> data]

\* the trigger branch and the end of the loop in one orchestrator: the
\* baseline is reset, monitoring stops, and stop_monitoring stops the
\* keyboard listener; the trackers keep what they have counted
RunTrigger(run) ==
    [run EXCEPT !.baseline_score = 0, !.phase = "stopped",
                !.keyboard.monitoring = FALSE]

\* the rest of a tick before the trigger, c being what RunCollect
\* returned: an orchestrator that has already triggered does not tick
RunDecide(run, c) ==
    IF run.phase # "monitoring" THEN run
    ELSE IF c.data.combined_score >= DefaultThreshold
         THEN RunTrigger(c.run) ELSE c.run

\* both orchestrators tick, each on its own scene
TickBefore(scene1, scene2) ==
    /\ \E r \in 1..2 : runs[r].phase = "monitoring"
    /\ \A r \in 1..2 :
          runs[r].keyboard.total_keypresses + Burst <= MaxKeypresses
    /\ \E c1 \in {RunCollect(runs[1], scene1, now)},
          c2 \in {RunCollect(runs[2], scene2, now)} :
          runs' = <<RunDecide(runs[1], c1), RunDecide(runs[2], c2)>>
    /\ obs' = [kind |-> "before"]
    /\ UNCHANGED <<engine, is_running, threads, status_queue, tracker,
                   keyboard_tracker>>

\* both have triggered; Start is pressed in both GUIs
Resume ==
    /\ \A r \in 1..2 : runs[r].phase = "stopped"
    /\ runs' = <<[runs[1] EXCEPT !.phase = "resumed"],
                 [runs[2] EXCEPT !.phase = "resumed"]>>
    /\ obs' = [kind |-> "resumed"]
    /\ UNCHANGED <<engine, is_running, threads, status_queue, tracker,
                   keyboard_tracker>>

\* both orchestrators tick on the same scene; the comparison ends with the
\* first tick that reaches the threshold in either
TickAfter(scene) ==
    /\ \A r \in 1..2 : runs[r].phase = "resumed"
    /\ \E c1 \in {RunCollect(runs[1], scene, now)},
          c2 \in {RunCollect(runs[2], scene, now)} :
          LET phase == IF \/ c1.data.combined_score >= DefaultThreshold
                          \/ c2.data.combined_score >= DefaultThreshold
                       THEN "over" ELSE "resumed"
          IN  /\ runs' = <<[c1.run EXCEPT !.phase = phase],
                           [c2.run EXCEPT !.phase = phase]>>
              /\ obs' = [kind |-> "after", scene |-> scene,
                         data |-> <<c1.data, c2.data>>]
    /\ UNCHANGED <<engine, is_running, threads, status_queue, tracker,
                   keyboard_tracker>>

NextFresh ==
    \/ \E pair \in ScenesBefore : TickBefore(pair[1], pair[2])
    \/ Resume
    \/ \E scene \in ScenesAfter : TickAfter(scene)
    \/ TimePasses

SpecFresh == Init /\ [][NextFresh]_vars

\* ------------------------------------------------------ SpecScore
\* sub-scores in [0,1] as <<detection, tracking, keyboard>>; their raw
\* scores are 0, 0.10, 0.35, 0.399999, 0.4, 0.45, 0.72, 0.95 and 1.0
ScoreSamples ==
    { <<0, 0, 0>>,
      <<25 * (One \div 100), 0, 0>>,
      <<875 * (One \div 1000), 0, 0>>,
      <<One - 3, 0, 1>>,
      <<One, 0, 0>>,
      <<875 * (One \div 1000), 0, 5 * (One \div 10)>>,
      <<75 * (One \div 100), 8 * (One \div 10), 5 * (One \div 10)>>,
      <<One, One, 75 * (One \div 100)>>,
      <<One, One, One>> }

\* one call of get_combined_productivity_score with the given sub-scores
ScoreCall(detection, tracking, keyboard) ==
    /\ Len(trace) < MaxTrace
    /\ LET data == GetCombinedProductivityScore(baseline_score, detection,
                                                tracking, keyboard)
       IN  /\ baseline_score' = data.baseline_score
           /\ trace' = Append(trace, [pre_baseline |-> baseline_score,
                                      data |-> data])
    /\ UNCHANGED <<monitoring, loop, is_in_cooldown, last_trigger_time,
                   last_warning_level, last_warning_time, kb_monitoring, now,
                   tick, fired_at, overlay_active, productivity_threshold,
                   parts>>

NextScore == \E s \in ScoreSamples : ScoreCall(s[1], s[2], s[3])

SpecScore == Init /\ [][NextScore]_vars

\* ============================================================ properties
\* a score p/100 and a score m/1000000 in the unit of raw scores
Pct(p) == p * (Full \div 100)
Millionths(m) == m * (Full \div 10^6)

\* the largest multiple of 0.1 that is <= r, for r in [0,1]
FloorTenth(r) ==
    (CHOOSE k \in 0..10 : k * Pct(10) <= r /\ r < (k + 1) * Pct(10)) * Pct(10)

\* the last loop iteration found the cooldown active and unexpired
Blocked ==
    /\ tick.kind = "tick"
    /\ tick.pre_cooldown
    /\ tick.check_time - tick.pre_trigger_time < CooldownSeconds

\* the last loop iteration fired a trigger
Fired == tick.kind = "tick" /\ tick.result.should_trigger

\* C1: a should_trigger_protocol call made while the cooldown is active and
\* now - last_trigger_time < cooldown_seconds returns
\* (False, 'Cooldown active ...', 0.0), whatever the scores are.
C1_CooldownBlocks ==
    Blocked => tick.result = [should_trigger |-> FALSE,
                              reason |-> "Cooldown active", score |-> 0]

\* a blocked call whose raw score is above 0.9 and whose baseline was
\* already at the threshold
C1_Witness ==
    /\ Blocked
    /\ tick.data.raw_score >= Pct(90)
    /\ tick.data.combined_score >= ProductivityThreshold

\* C2 (as claimed): a loop iteration that finds the cooldown active collects
\* no signals and leaves baseline_score as it was.
C2_CooldownSkipsCollection ==
    Blocked => /\ ~tick.collected
               /\ baseline_score = tick.pre_baseline

\* C3: is_in_cooldown is cleared by the first call with
\* now - last_trigger_time >= cooldown_seconds and by no earlier one, and
\* that call compares the combined score with the threshold as usual.
C3_LazyExactDeactivation ==
    (tick.kind = "tick" /\ tick.pre_cooldown) =>
        IF tick.check_time - tick.pre_trigger_time >= CooldownSeconds
        THEN /\ ~tick.cooldown_after_check
             /\ tick.result.reason # "Cooldown active"
             /\ tick.result.should_trigger
                    = (tick.data.combined_score >= ProductivityThreshold)
             /\ tick.result.score = tick.data.combined_score
             /\ is_in_cooldown = tick.result.should_trigger
        ELSE /\ tick.cooldown_after_check
             /\ is_in_cooldown

\* the call exactly cooldown_seconds after the trigger, below the threshold
C3_Witness ==
    /\ tick.kind = "tick"
    /\ tick.pre_cooldown
    /\ tick.check_time - tick.pre_trigger_time = CooldownSeconds
    /\ ~tick.result.should_trigger
    /\ ~is_in_cooldown

\* C4: baseline_score never decreases from one step to the next except by
\* the reset of a firing trigger, which sets it to exactly 0.0.
C4_BaselineMonotone ==
    [][ /\ (baseline_score' < baseline_score =>
                Len(fired_at') > Len(fired_at))
        /\ (Len(fired_at') > Len(fired_at) => baseline_score' = 0) ]_vars

\* a tick whose raw score dipped below a positive baseline, which stayed
C4_Witness ==
    /\ tick.kind = "tick"
    /\ ~tick.result.should_trigger
    /\ tick.pre_baseline > 0
    /\ tick.data.raw_score < tick.pre_baseline
    /\ baseline_score = tick.pre_baseline

\* C5: after a call with raw score r and previous baseline b the baseline
\* is max(b, floor(r*10)/10); the raw sequence 0.35, 0.10, 0.45 from
\* baseline 0.0 gives baselines 0.3, 0.3, 0.4 and combined scores
\* 0.35, 0.3, 0.45; a raw score of 0.399999 never credits the 0.4 tier.
C5_QuantizesDown ==
    /\ \A i \in 1..Len(trace) :
          /\ trace[i].data.baseline_score
                 = Max(trace[i].pre_baseline, FloorTenth(trace[i].data.raw_score))
          /\ (trace[i].data.raw_score = Millionths(399999)
                 /\ trace[i].pre_baseline < Pct(40))
                 => trace[i].data.baseline_score = Pct(30)
    /\ trace # << >> => baseline_score = trace[Len(trace)].data.baseline_score
    /\ (Len(trace) = 3
          /\ [i \in 1..3 |-> trace[i].data.raw_score]
                 = <<Pct(35), Pct(10), Pct(45)>>)
          => /\ [i \in 1..3 |-> trace[i].data.baseline_score]
                    = <<Pct(30), Pct(30), Pct(40)>>
             /\ [i \in 1..3 |-> trace[i].data.combined_score]
                    = <<Pct(35), Pct(30), Pct(45)>>

\* the three calls of the scenario have been made
C5_Witness ==
    /\ Len(trace) = 3
    /\ [i \in 1..3 |-> trace[i].data.raw_score] = <<Pct(35), Pct(10), Pct(45)>>

\* C6: in every tick combined_score = min(max(raw_score, baseline_score), 1.0)
\* with the baseline after the update, so it is >= baseline, >= raw, <= 1.0.
C6_CombinedBounds ==
    tick.kind = "tick" =>
        LET d == tick.data
        IN  /\ d.combined_score >= d.baseline_score
            /\ d.combined_score >= d.raw_score
            /\ d.combined_score <= Full
            /\ d.combined_score \in {d.baseline_score, d.raw_score}
            /\ d.baseline_score >= tick.pre_baseline

\* a tick whose combined score is the baseline, above a positive raw score
C6_Witness ==
    /\ tick.kind = "tick"
    /\ tick.data.raw_score > 0
    /\ tick.data.baseline_score > tick.data.raw_score
    /\ tick.data.combined_score = tick.data.baseline_score

\* C7: for sub-scores in [0,1] the raw score is
\* visual*0.4 + focus*0.4 + typing*0.2 capped at 1.0 and lies in [0,1];
\* 0.75, 0.8, 0.5 gives 0.72.
C7_WeightedSum ==
    \A i \in 1..Len(trace) :
        LET d == trace[i].data
        IN  /\ d.raw_score * 10
                 = Min(40 * d.detection_score + 40 * d.tracking_score
                           + 20 * d.keyboard_score, 10 * Full)
            /\ d.raw_score >= 0
            /\ d.raw_score <= Full
            /\ (d.detection_score = 75 * (One \div 100)
                  /\ d.tracking_score = 8 * (One \div 10)
                  /\ d.keyboard_score = 5 * (One \div 10))
                  => d.raw_score = Pct(72)

\* the sample 0.75, 0.8, 0.5 and the sample 1.0, 1.0, 1.0 have been scored
C7_Witness ==
    /\ \E i \in 1..Len(trace) :
          /\ trace[i].data.detection_score = 75 * (One \div 100)
          /\ trace[i].data.tracking_score = 8 * (One \div 10)
          /\ trace[i].data.keyboard_score = 5 * (One \div 10)
    /\ \E i \in 1..Len(trace) : trace[i].data.raw_score = Full

\* C8: a tick not blocked by cooldown returns should_trigger = True exactly
\* when combined_score >= productivity_threshold, and the returned score is
\* the combined score in both cases.
C8_ThresholdInclusive ==
    (tick.kind = "tick" /\ ~Blocked) =>
        /\ tick.result.should_trigger
               = (tick.data.combined_score >= ProductivityThreshold)
        /\ tick.result.score = tick.data.combined_score

\* a trigger at a combined score equal to the threshold, held up by the
\* baseline while the raw score is below the threshold
C8_Witness ==
    /\ tick.kind = "tick"
    /\ ~Blocked
    /\ tick.result.should_trigger
    /\ tick.data.combined_score = ProductivityThreshold
    /\ tick.data.raw_score < ProductivityThreshold

\* C9: right after a tick that fired a trigger baseline_score = 0.0,
\* last_warning_level = 0.0, last_warning_time = 0 and the cooldown is
\* active with last_trigger_time the time of the trigger.
C9_TriggerResets ==
    Fired =>
        /\ baseline_score = 0
        /\ last_warning_level = 0
        /\ last_warning_time = 0
        /\ is_in_cooldown
        /\ last_trigger_time = fired_at[Len(fired_at)]
        /\ last_trigger_time >= tick.check_time
        /\ last_trigger_time <= now

\* a trigger fired from a state with a baseline and a recorded warning
C9_Witness ==
    /\ Fired
    /\ tick.pre_baseline > 0
    /\ tick.pre_warning_level > 0

WarnCalled == tick.kind = "tick" /\ tick.warn_called

\* C11: check_and_send_warnings(score) at time now emits a warning only if
\* bucket = floor(score*10)/10 is > last_warning_level and >= 0.1 and
\* now - last_warning_time >= warning_cooldown; when it emits it sets
\* last_warning_level = bucket and last_warning_time = now, and when it
\* does not emit it changes neither.
C11_WarningGate ==
    WarnCalled =>
        LET bucket == FloorTenth(tick.result.score)
        IN  IF tick.warned
            THEN /\ bucket > tick.pre_warning_level
                 /\ bucket >= Pct(10)
                 /\ tick.warn_time - tick.pre_warning_time >= WarningCooldown
                 /\ last_warning_level = bucket
                 /\ last_warning_time = tick.warn_time
            ELSE /\ last_warning_level = tick.pre_warning_level
                 /\ last_warning_time = tick.pre_warning_time

\* a second warning, for a higher bucket, after the rate limit has passed
C11_Witness ==
    /\ WarnCalled
    /\ tick.warned
    /\ tick.pre_warning_level > 0
    /\ last_warning_level > tick.pre_warning_level

\* C12: the same combined score on any number of consecutive non-triggering
\* ticks emits at most one warning in total, however much time passes.
C12_OneWarningPerBucket ==
    tick.kind = "tick" => tick.run_warnings <= 1

\* a tick of a run that has already warned, at least warning_cooldown after
\* that warning, which stays silent
C12_Witness ==
    /\ WarnCalled
    /\ ~tick.warned
    /\ tick.run_warnings = 1
    /\ tick.warn_time - tick.pre_warning_time >= WarningCooldown
    /\ FloorTenth(tick.result.score) = tick.pre_warning_level

\* C13 (as claimed): while triggers are suppressed every tick returns
\* (False, suppression reason, 0.0) and leaves the baseline, the warning
\* state and the cooldown state as they were.
C13_SuppressedIsNoOp ==
    (tick.kind = "tick" /\ tick.suppressed) =>
        /\ tick.result = [should_trigger |-> FALSE, reason |-> "Suppressed",
                          score |-> 0]
        /\ baseline_score = tick.pre_baseline
        /\ last_warning_level = tick.pre_warning_level
        /\ last_warning_time = tick.pre_warning_time
        /\ is_in_cooldown = tick.pre_cooldown
        /\ last_trigger_time = tick.pre_trigger_time

\* C14: an exception of a producer does not leave
\* get_combined_productivity_score, and the sub-scores of the producers
\* that did not raise are what they returned and enter the raw score.
C14_ProducerFailureContained ==
    tick.kind = "tick" =>
        /\ ~tick.exception
        /\ ~tick.det.raises => tick.data.detection_score = tick.det.score
        /\ ~tick.trk.raises
               => tick.data.tracking_score = TrackingScore(tick.trk.trigger)
        /\ tick.kb.raises = "no" => tick.data.keyboard_score = tick.kb.score
        /\ tick.data.raw_score * 10
               = Min(40 * tick.data.detection_score
                       + 40 * tick.data.tracking_score
                       + 20 * tick.data.keyboard_score, 10 * Full)

\* the screen detector raised; focus and typing were scored all the same
C14_Witness ==
    /\ tick.kind = "tick"
    /\ tick.det.raises
    /\ tick.data.tracking_score > 0
    /\ tick.data.keyboard_score > 0
    /\ tick.data.raw_score = Pct(42)

\* C15 (as claimed): a producer whose collection step raised, wherever in
\* the step, has the sub-score 0.0 in that tick.
C15_FailedProducerScoresZero ==
    tick.kind = "tick" =>
        /\ tick.det.raises => tick.data.detection_score = 0
        /\ tick.trk.raises => tick.data.tracking_score = 0
        /\ tick.kb.raises # "no" => tick.data.keyboard_score = 0

\* C16 (as claimed): no tick is evaluated by an orchestrator whose
\* productivity_threshold is outside (0, 1].
C16_InvalidConfigNeverEvaluated ==
    tick.kind = "tick" =>
        /\ productivity_threshold > 0
        /\ productivity_threshold <= Full

\* C17: when the notification sink or the overlay fails, no exception
\* reaches the loop and the engine state after the tick is the state a
\* successful consumer leaves: the warning recorded, or the trigger reset.
C17_ConsumerFailureIsolated ==
    (tick.kind = "tick" /\ (tick.notify_failed \/ tick.overlay_failed)) =>
        /\ ~tick.exception
        /\ IF tick.result.should_trigger
           THEN /\ baseline_score = 0
                /\ last_warning_level = 0
                /\ last_warning_time = 0
                /\ is_in_cooldown
                /\ last_trigger_time = fired_at[Len(fired_at)]
                /\ last_trigger_time = tick.warn_time
           ELSE /\ baseline_score = tick.data.baseline_score
                /\ last_warning_level = FloorTenth(tick.result.score)
                /\ last_warning_time = tick.warn_time
                /\ is_in_cooldown = tick.cooldown_after_check
                /\ last_trigger_time = tick.pre_trigger_time

\* a warning whose notification could not be delivered
C17_Witness ==
    /\ tick.kind = "tick"
    /\ tick.notify_failed
    /\ ~tick.result.should_trigger
    /\ last_warning_level > 0
    /\ last_warning_time = tick.warn_time

\* C18 (as claimed): the loop thread is never held by an overlay that is
\* waiting to be dismissed.
C18_TriggerDoesNotBlock ==
    overlay_active => loop # "overlay"

C21_OneLoopThread ==
    Cardinality({t \in Threads : threads[t].pc \in InLoop}) <= 1

\* the last call was an analyze_screen on a captured screen
Analysed == obs.kind = "analysis" /\ obs.screen.captured

\* the fixed increment of a classifier answer
Increment(answer) ==
    IF answer = "confident" THEN 4 * (One \div 10) ELSE 2 * (One \div 10)

\* C26 (as claimed): within one analyze_screen call the classifier's boost
\* is applied at most once: the returned score exceeds the heuristic score
\* by at most one increment, 0.4 when confident and 0.2 when unsure, and is
\* at most 1.0.
C26_BoostAppliedOnce ==
    Analysed =>
        /\ obs.result.boosts <= 1
        /\ obs.result.productivity_score <= One
        /\ obs.result.productivity_score - obs.heuristic
               <= Max(Increment(obs.screen.answer1),
                      Increment(obs.screen.answer2))

\* C27: the classifier is asked only when no heuristic fired, or the
\* heuristic score is below 0.2, and OCR found text; a call that raises,
\* hits an API error or answers not productive leaves the score as it was,
\* so compute_visual_score then returns the heuristic score alone; the
\* score is never below the heuristic score.
C27_ClassifierBestEffort ==
    Analysed =>
        LET sc == obs.screen
            failed(a) == a \in {"raises", "api_error", "not_productive"}
        IN  /\ (obs.visual.consulted \/ obs.result.consulted > 0)
                  => /\ sc.gemini
                     /\ sc.ocr_text
                     /\ (sc.fired = {}
                           \/ obs.heuristic < GeminiFallbackThreshold)
            /\ failed(sc.answer1)
                  => /\ obs.visual.productivity_score = obs.heuristic
                     /\ obs.visual.triggers_activated = Cardinality(sc.fired)
            /\ failed(sc.answer2)
                  => obs.result.productivity_score
                        = obs.visual.productivity_score
            /\ obs.visual.productivity_score >= obs.heuristic
            /\ obs.result.productivity_score >= obs.visual.productivity_score

\* the classifier was asked about a screen whose only heuristic gave 0.15
\* and hit an API error
C27_Witness ==
    /\ Analysed
    /\ obs.visual.consulted
    /\ obs.screen.answer1 = "api_error"
    /\ obs.heuristic = 15 * (One \div 100)
    /\ obs.result.productivity_score = obs.heuristic

\* C29 (as claimed): focus_duration is 0 on the observation where the
\* window changes and is the time since the window most recently became
\* the one in front on every later observation of that window.
C29_FocusDurationIsTimeInFront ==
    (obs.kind \in {"focus", "verdict"} /\ obs.window # NoWindow)
        => obs.focus_info.focus_duration = obs.at - obs.since

\* C30 (as claimed): should_trigger_protocol(require_focus_duration=True)
\* returns True only for a productive app that has been focused for at
\* least the minimum.
C30_OnlyProductiveAppsTrigger ==
    (obs.kind = "verdict" /\ obs.trigger)
        => /\ obs.window # NoWindow
           /\ obs.focus_info.is_productive_app
           /\ obs.focus_info.focus_duration >= FocusDurationThreshold

\* the last call was a get_combined_productivity_score
Collected == obs.kind = "collected"

\* the trigger named s is listed
Names(s) == \E i \in 1..Len(obs.triggers) : obs.triggers[i] = s

\* C22 (as claimed): every sub-signal whose sub-score is non-zero is named
\* in the reason, and the reason is 'No productivity indicators detected'
\* only when no sub-signal contributed to the score.
C22_ReasonNamesContributors ==
    Collected =>
        /\ obs.data.detection_score > 0 => Names("Visual detection")
        /\ obs.data.tracking_score > 0
              => (Names("Active app focus") \/ Names("Tab overload"))
        /\ obs.data.keyboard_score > 0 => Names("Keyboard")
        /\ obs.reason = <<NoIndicators>> => obs.data.raw_score = 0

\* C23: without a listening keyboard tracker (keyboard_tracker None, or a
\* tracker whose listener could not start) the keyboard step does not fail,
\* keyboard_score is 0.0, and the raw score is the weighted sum of the
\* other two sub-scores, at most 0.8.
C23_NoKeyboardTracker ==
    (Collected /\ keyboard_tracker # "listening") =>
        /\ ~obs.keyboard.raised
        /\ obs.data.keyboard_score = 0
        /\ obs.data.raw_score
              = 4 * obs.data.detection_score + 4 * obs.data.tracking_score
        /\ obs.data.raw_score <= Pct(80)
        /\ obs.data.combined_score
              = Min(Max(obs.data.baseline_score, obs.data.raw_score), Full)

\* keyboard tracking is off, the user types fast and steadily, the screen
\* and the window give their most: the raw score is 0.72
C23_Witness ==
    /\ Collected
    /\ keyboard_tracker = "none"
    /\ GetActivityScore(obs.typing) = One
    /\ obs.data.keyboard_score = 0
    /\ obs.data.raw_score = Pct(72)

\* C25 (as claimed): when the tracker reports no trigger and the focused
\* window shows tab overload on a productive tab, the tracking sub-score
\* is at least 0.7 and 'Tab overload' is among the triggers.
C25_TabOverloadBoost ==
    (/\ Collected
     /\ ~obs.tracking.trigger
     /\ obs.window # NoWindow
     /\ DetectTabBarOverload(obs.window)
     /\ ParseTabBar(obs.window).is_productive_tab)
        => /\ obs.data.tracking_score >= 7 * (One \div 10)
           /\ Names("Tab overload")

\* C24: a tick not blocked by cooldown that starts with baseline_score
\* already >= productivity_threshold fires the trigger, whatever its raw
\* score is.
C24_BaselineAloneTriggers ==
    (/\ tick.kind = "tick"
     /\ ~Blocked
     /\ tick.pre_baseline >= ProductivityThreshold)
        => /\ Fired
           /\ tick.result.score >= ProductivityThreshold
           /\ tick.result.score >= tick.pre_baseline

\* the baseline was ratcheted past the threshold during a cooldown; the
\* first tick after it sees nothing productive at all and fires
C24_Witness ==
    /\ tick.kind = "tick"
    /\ ~Blocked
    /\ tick.pre_baseline >= ProductivityThreshold
    /\ tick.data.raw_score = 0
    /\ Fired

\* C28 (as claimed): two runs that differ only in what was typed and
\* focused before their triggers, and see the same after the restart, get
\* the same sub-scores, raw score and combined score on every tick after
\* the restart.
C28_FreshStartAfterTrigger ==
    obs.kind = "after" =>
        /\ obs.data[1].detection_score = obs.data[2].detection_score
        /\ obs.data[1].tracking_score = obs.data[2].tracking_score
        /\ obs.data[1].keyboard_score = obs.data[2].keyboard_score
        /\ obs.data[1].raw_score = obs.data[2].raw_score
        /\ obs.data[1].combined_score = obs.data[2].combined_score

\* C33 (as claimed): on an orchestrator constructed with a working keyboard
\* tracker the keyboard listener is active whenever the monitoring loop is
\* running, after any sequence of starts, stops and trigger auto-stops.
C33_ListenerFollowsLoop ==
    (keyboard_tracker = "listening" /\ loop = "running" /\ monitoring)
        => kb_monitoring

\* a monitoring loop is running: a thread has been started and is about to
\* set the flag, or is inside the loop with the flag set
LoopRunning ==
    \E t \in Threads :
        \/ At(t, "begin")
        \/ threads[t].pc \in InLoop /\ monitoring

\* C34 (as claimed): once the status queue is drained, the GUI shows the
\* stopped state only if no monitoring loop is running.
C34_GuiAgreesWithLoop ==
    (status_queue = << >> /\ ~is_running) => ~LoopRunning

WarnInputs ==
    { <<Returns(0), Verdict(FALSE), Typing(0)>>,
      <<Returns(35 * (One \div 100)), Verdict(FALSE), Typing(0)>>,
      <<Returns(0), Verdict(TRUE), Typing(0)>>,
      <<Returns(One), Verdict(TRUE), Typing(One)>>,
      <<Returns(35 * (One \div 100)), Verdict(TRUE), KeyboardRaisesBefore>> }

\* a reading of time.time() after the origin of the clock has moved by d;
\* a time further back than the origin reads as the origin
Earlier(t, d) == IF t > d THEN t - d ELSE 0

\* The program only ever subtracts two readings of time.time() and compares
\* the difference with cooldown_seconds or warning_cooldown. When the
\* window of the clock is used up its origin is moved forward: every
\* difference below BootTime is kept, every larger one stays at least
\* BootTime, which is beyond both periods.
Rebase ==
    /\ now + CheckInterval > MaxTime
    /\ LET d == now - BootTime
       IN  /\ now' = BootTime
           /\ last_trigger_time' = Earlier(last_trigger_time, d)
           /\ last_warning_time' = Earlier(last_warning_time, d)
           /\ tick' = IF tick.kind = "tick"
                      THEN [tick EXCEPT
                              !.check_time = Earlier(@, d),
                              !.warn_time = Earlier(@, d),
                              !.pre_trigger_time = Earlier(@, d),
                              !.pre_warning_time = Earlier(@, d)]
                      ELSE tick
           /\ fired_at' = << >>
    /\ UNCHANGED <<monitoring, loop, is_in_cooldown, baseline_score,
                   last_warning_level, kb_monitoring, trace, overlay_active,
                   productivity_threshold, parts>>

WarnTick ==
    \E in \in WarnInputs, lag \in 0..MaxLag :
        MonitoringTick(in[1], in[2], in[3], Calm, lag)

\* one run of the loop, from Start until a trigger or an exception ends
\* it; the time from one tick to the next is check_interval plus the lag
NextWarn ==
    \/ StartMonitoring
    \/ WarnTick
    \/ OverlayDismissed
    \/ Rebase

\* the loop thread is scheduled (time.sleep(check_interval) returns), and
\* time does not end
SpecWarn == Init /\ [][NextWarn]_vars /\ WF_vars(WarnTick) /\ WF_vars(Rebase)

Buckets == {k * (Full \div 10) : k \in 1..10}

\* the last tick did not trigger, was outside cooldown, had a combined score
\* in bucket b above the warning level, and check_and_send_warnings kept
\* quiet because of the rate limit
Delayed(b) ==
    /\ tick.kind = "tick"
    /\ ~tick.exception
    /\ ~tick.result.should_trigger
    /\ ~tick.cooldown_after_check
    /\ tick.warn_called
    /\ ~tick.warned
    /\ CurrentThreshold(tick.data.combined_score) = b
    /\ b > tick.pre_warning_level

DelayedWarning == \E b \in Buckets : Delayed(b)

\* the last tick warned, at the bucket of its combined score, which is the
\* baseline it left behind
EmittedAtBaseline ==
    /\ tick.kind = "tick"
    /\ tick.warned
    /\ last_warning_level = CurrentThreshold(tick.data.combined_score)
    /\ last_warning_level = baseline_score

MonitoringEnded == ~monitoring \/ loop # "running"

\* a step that is a tick of the loop, outside cooldown and not triggering,
\* at least warning_cooldown after the previous warning, with a bucket
\* above the warning level
DueTick ==
    /\ loop = "running" /\ monitoring
    /\ tick' # tick
    /\ tick'.kind = "tick"
    /\ tick'.check_time = now
    /\ ~tick'.exception
    /\ ~tick'.result.should_trigger
    /\ ~tick'.cooldown_after_check
    /\ tick'.warn_time - last_warning_time >= WarningCooldown
    /\ CurrentThreshold(tick'.data.combined_score) > last_warning_level
    /\ CurrentThreshold(tick'.data.combined_score) >= Full \div 10

\* a step that is a tick of the loop and does not trigger
QuietTick ==
    /\ loop = "running" /\ monitoring
    /\ tick' # tick
    /\ tick'.kind = "tick"
    /\ tick'.check_time = now
    /\ ~tick'.result.should_trigger

\* C36: a warning delayed by the rate limit is not lost. Once a
\* non-triggering tick outside cooldown had a bucket b >= 0.1 above the
\* warning level and was kept quiet by the rate limit, then, unless
\* monitoring ends (trigger or exception), a later tick emits a warning at
\* a level >= b: the delayed bucket b is kept in the baseline, the baseline
\* does not fall on a tick without trigger, and a later tick warns at the
\* level of the baseline. Every tick that comes at least warning_cooldown
\* after the previous warning with a bucket above the warning level emits
\* the warning of its bucket, so the first one does.
C36_DelayedWarningNotLost ==
    /\ DelayedWarning ~> (EmittedAtBaseline \/ MonitoringEnded)
    /\ [](\A b \in Buckets : Delayed(b) => baseline_score >= b)
    /\ [][QuietTick => baseline_score' >= baseline_score]_vars
    /\ [][DueTick =>
            /\ tick'.warned
            /\ last_warning_level' = CurrentThreshold(tick'.data.combined_score)
            /\ last_warning_time' = tick'.warn_time]_vars

\* a warning of bucket 0.3 or more has been emitted by the first tick after
\* the rate limit ran out; the baseline had risen above the warning level
\* before, in a tick that the rate limit kept quiet
C36_Witness ==
    /\ tick.kind = "tick"
    /\ tick.warned
    /\ tick.pre_warning_level >= Full \div 10
    /\ tick.pre_baseline > tick.pre_warning_level
    /\ last_warning_level >= 3 * (Full \div 10)
    /\ tick.warn_time - tick.pre_warning_time >= WarningCooldown
    /\ tick.warn_time - tick.pre_warning_time < WarningCooldown + CheckInterval


\* -------------------------------------------------- SpecClassifier
\* The loop fed by analyze_screen on screens on which no heuristic fires,
\* with no productive application in focus and no typing: only the
\* classifier can raise the detection score.

\* main(): DeProductifyOrchestrator(productivity_threshold=0.4, ...)
MainThreshold == 4 * (Full \div 10)

\* the productivity_score of analyze_screen over every screen without a
\* heuristic, whatever the capture, the OCR, the configuration of the
\* classifier and its two answers come to
ClassifierScores ==
    { AnalyzeScreen(c, {}, o, g, a, a1, a2).productivity_score :
        c \in BOOLEAN, o \in BOOLEAN, g \in BOOLEAN, a \in BOOLEAN,
        a1 \in Answers, a2 \in Answers }

\* the orchestrator with the default threshold or with the one of main();
\* obs records whether the run gets the classifier alone or every signal
InitClassifier ==
    /\ monitoring = FALSE
    /\ loop = "none"
    /\ is_in_cooldown = FALSE
    /\ last_trigger_time = 0
    /\ baseline_score = 0
    /\ last_warning_level = 0
    /\ last_warning_time = 0
    /\ kb_monitoring = TRUE
    /\ now = BootTime
    /\ tick = NoTick
    /\ fired_at = << >>
    /\ trace = << >>
    /\ overlay_active = FALSE
    /\ productivity_threshold \in {DefaultThreshold, MainThreshold}
    /\ InitIdle
    /\ keyboard_tracker = KeyboardTrackerAtInit(TRUE, TRUE)
    /\ \E alone \in BOOLEAN : obs = [kind |-> "run", classifier_alone |-> alone]

\* a tick whose detection score comes from the classifier alone
ClassifierTick ==
    /\ obs.classifier_alone
    /\ \E d \in ClassifierScores, lag \in 0..MaxLag :
          MonitoringTick(Returns(d), Verdict(FALSE), Typing(0), Calm, lag)

\* a tick of a run in which the other signals speak as well
MixedTick ==
    /\ ~obs.classifier_alone
    /\ \E in \in WarnInputs, lag \in 0..MaxLag :
          MonitoringTick(in[1], in[2], in[3], Calm, lag)

NextClassifier ==
    \/ StartMonitoring
    \/ StopMonitoring
    \/ ClassifierTick
    \/ MixedTick
    \/ OverlayDismissed
    \/ LoopExit
    \/ TimePasses

SpecClassifier == InitClassifier /\ [][NextClassifier]_vars

\* C35: in a run in which the heuristic visual score, the focus score and the
\* typing score are 0 on every tick, no trigger fires, with the threshold
\* 0.5 and with the 0.4 of main(), whatever the classifier answers.
C35_ClassifierAloneNeverTriggers ==
    (obs.kind = "run" /\ obs.classifier_alone) =>
        /\ fired_at = << >>
        /\ ~overlay_active
        /\ tick.kind = "tick" => ~tick.result.should_trigger

\* the classifier has given all it can (unsure, then confident with the
\* application name: 0.2 + 0.4) on a tick that follows a tick that had
\* already raised the baseline, with the threshold of main()
C35_Witness ==
    /\ obs.kind = "run" /\ obs.classifier_alone
    /\ productivity_threshold = MainThreshold
    /\ tick.kind = "tick"
    /\ tick.det.score = 6 * (One \div 10)
    /\ tick.pre_baseline = 2 * (Full \div 10)
    /\ tick.data.combined_score = 24 * (Full \div 100)
    /\ ~tick.result.should_trigger


\* ----------------------------------------------------- SpecOverlay
\* PerformativeProtocol as launch_performative_protocol runs it: a new
\* object per launch, activate(), then the Tk event loop handing events to
\* the overlay until dismiss() ends it.  The object is kept in obs.
\*   overlay_window    : self.overlay_window is not None
\*   matcha_clicks     : self.matcha_clicks
\*   animation_running : self.animation_running
\*   music_playing     : the music started by _play_music is playing
\*   shaking           : per click, the step the next animate_step callback
\*                       of _shake_matcha runs with
\*   mainloop          : root.mainloop() has not returned
\*   launches, last_event : how many launches there were, the last event
MaxLaunches == 2

\* rotation_angles = single_shake * 3 + [original_angle]
ShakeFrames == 6 * 3 + 1

\* PerformativeProtocol.__init__
NewProtocol(launches) ==
    [kind |-> "protocol", overlay_window |-> FALSE, matcha_clicks |-> 0,
     animation_running |-> FALSE, music_playing |-> FALSE,
     shaking |-> << >>, mainloop |-> FALSE, launches |-> launches,
     last_event |-> "none"]

\* activate: the Toplevel window, the click binding of the first matcha,
\* _play_music, the animation loop
Activate(p) ==
    [p EXCEPT !.overlay_window = TRUE,
              !.music_playing = TRUE,
              !.animation_running = TRUE]

\* dismiss that leaves the click counter alone
DismissKeepsClicks(p) ==
    [p EXCEPT !.animation_running = FALSE,
              !.music_playing = FALSE,
              !.overlay_window = FALSE,
              !.mainloop = FALSE,
              !.shaking = << >>]

\* dismiss: animation flag, _stop_music, the overlay window and the root are
\* destroyed (their pending after() callbacks go with them), root.quit()
\* ends the event loop, the counter is cleared
Dismiss(p) ==
    [p EXCEPT !.animation_running = FALSE,
              !.music_playing = FALSE,
              !.overlay_window = FALSE,
              !.mainloop = FALSE,
              !.shaking = << >>,
              !.matcha_clicks = 0]

\* _shake_matcha: animate_step(0) runs at once and schedules step 1
ShakeMatcha(p) == [p EXCEPT !.shaking = Append(@, 1)]

\* _on_matcha_click
OnMatchaClick(p) ==
    LET counted == [p EXCEPT !.matcha_clicks = @ + 1]
        shaken  == ShakeMatcha(counted)
    IN  IF shaken.matcha_clicks >= 3 THEN Dismiss(shaken) ELSE shaken

InitOverlay ==
    /\ InitEngine
    /\ InitIdle
    /\ keyboard_tracker = KeyboardTrackerAtInit(TRUE, TRUE)
    /\ obs = NewProtocol(0)

\* launch_performative_protocol up to root.mainloop()
Launch ==
    /\ ~obs.mainloop
    /\ obs.launches < MaxLaunches
    /\ obs' = [Activate(NewProtocol(obs.launches + 1))
                 EXCEPT !.mainloop = TRUE, !.last_event = "launch"]
    /\ UNCHANGED <<engine, is_running, threads, status_queue, tracker, runs,
                   keyboard_tracker>>

\* <Button-1> on the canvas item of matcha-removebg-preview(1).png
MatchaClick ==
    /\ obs.mainloop
    /\ obs.overlay_window
    /\ obs' = [OnMatchaClick(obs) EXCEPT !.last_event = "matcha_click"]
    /\ UNCHANGED <<engine, is_running, threads, status_queue, tracker, runs,
                   keyboard_tracker>>

\* events nothing is bound to: a click on matcha2 or on another image, a
\* key, and stop_protocol(), which is `pass`
UnboundEvents == {"decoration_click", "key", "stop_protocol"}
Unbound(e) ==
    /\ obs.mainloop
    /\ obs' = [obs EXCEPT !.last_event = e]
    /\ UNCHANGED <<engine, is_running, threads, status_queue, tracker, runs,
                   keyboard_tracker>>

\* _animate_images, every 16 ms while the canvas is there
AnimateFrame ==
    /\ obs.mainloop
    /\ obs.animation_running /\ obs.overlay_window
    /\ obs' = [obs EXCEPT !.last_event = "frame"]
    /\ UNCHANGED <<engine, is_running, threads, status_queue, tracker, runs,
                   keyboard_tracker>>

\* one animate_step callback of the i-th shake
ShakeStep(i) ==
    /\ obs.mainloop
    /\ i \in DOMAIN obs.shaking
    /\ obs.shaking[i] <= ShakeFrames
    /\ obs' = [obs EXCEPT !.shaking[i] = @ + 1, !.last_event = "shake"]
    /\ UNCHANGED <<engine, is_running, threads, status_queue, tracker, runs,
                   keyboard_tracker>>

NextOverlay ==
    \/ Launch
    \/ MatchaClick
    \/ \E e \in UnboundEvents : Unbound(e)
    \/ AnimateFrame
    \/ \E i \in DOMAIN obs.shaking : ShakeStep(i)

SpecOverlay == InitOverlay /\ [][NextOverlay]_vars

OverlayUp == obs.kind = "protocol" /\ obs.overlay_window

====
